---- MODULE Spec2Model ----
(***************************************************************************)
(* The client-side data-synchronisation and mutation layer of the admin    *)
(* console: one view (resource list controller) at a time, the requests it *)
(* has in flight, the backend the requests reach, and the table each view  *)
(* derives from (collection, loading, error).                              *)
(*                                                                         *)
(* An async handler is two steps: the call (everything up to its await)    *)
(* and the resolution (everything after it).  Between the two the backend  *)
(* handles the request, or the transport drops it.                         *)
(***************************************************************************)
EXTENDS Integers, Sequences, FiniteSets, Bags, TLC

\* Bounds of the model.
MaxRecs == 2
MaxReqs == 3
MaxItemReqs == 4
MaxFormReqs == 2

Views == {"OrderManagement", "ContactManagement", "ListItemsPage", "AddItemPage",
          "AdminPanel", "AdminLoginModal"}
Resources == {"orders", "contacts", "items"}
Statuses == {"pending", "delivered", "cancelled"}
Tokens == {"none", "tok"}

\* useState(null) of the error state.
NoError == "null"

\* The resources a view holds a collection of.
ViewResources(v) ==
  CASE v = "OrderManagement" -> {"orders"}
    [] v = "ContactManagement" -> {"contacts"}
    [] v = "ListItemsPage" -> {"items"}
    [] v \in {"AddItemPage", "AdminLoginModal"} -> {}
    [] OTHER -> {"orders", "contacts"}

\* The requests a behaviour of view v may issue.
ReqBound(v) ==
  CASE v = "ListItemsPage" -> MaxItemReqs
    [] v = "AddItemPage" -> MaxFormReqs
    [] OTHER -> MaxReqs

\* The views whose fetch effect depends on the token read at render.
RefetchesOnToken(v) == v \in {"OrderManagement", "AdminPanel"}

(***************************************************************************)
(* Records and sequences                                                   *)
(***************************************************************************)
\* The fields a record may come without; the records of odd id carry them.
OptionalFields(res, i) ==
  IF i % 2 = 0 THEN <<>>
  ELSE IF res = "orders"
       THEN [firstName |-> "fn", lastName |-> "ln", phone |-> "ph", address |-> "ad",
             city |-> "ci", zipCode |-> "zc", paymentMethod |-> "cod", totalPrice |-> i,
             items |-> <<[quantity |-> i]>>, createdAt |-> i]
       ELSE [fullName |-> "fn", emailAddress |-> "em", phoneNumber |-> "ph",
             address |-> "ad", dishName |-> "di", query |-> "qu", createdAt |-> i]

MkRecord(res, i) ==
  [id |-> i, status |-> IF res = "orders" THEN "pending" ELSE "none", email |-> i]
    @@ OptionalFields(res, i)

InitialRecords(res, n) == [i \in 1..n |-> MkRecord(res, i)]

Ids(s) == {s[i].id : i \in DOMAIN s}

\* prev.filter((o) => o._id !== id)
RemoveById(prev, id) == SelectSeq(prev, LAMBDA o : o.id # id)

\* prev.map((o) => (o._id === id ? { ...o, status: newStatus } : o))
PatchStatusAll(prev, id, newStatus) ==
  [i \in DOMAIN prev |-> [prev[i] EXCEPT !.status = newStatus]]

PatchStatus(prev, id, newStatus) ==
  [i \in DOMAIN prev |->
     IF prev[i].id = id THEN [prev[i] EXCEPT !.status = newStatus] ELSE prev[i]]

(***************************************************************************)
(* Responses                                                               *)
(***************************************************************************)
\* kind: "json" (a body that parses), "badjson" (a body that does not),
\* "transport" (fetch rejected), "none" (no response).  success is the body's success flag: "true", "false", "absent".
\* msg: the body carries a message field.  shape: "array" (a bare array),
\* "envelope" (an object with a data field), "none".
MkResp(kind, ok, success, msg, shape, data) ==
  [kind |-> kind, ok |-> ok, success |-> success, msg |-> msg,
   shape |-> shape, data |-> data]

NoResp == MkResp("none", FALSE, "absent", FALSE, "none", <<>>)
TransportFailure == MkResp("transport", FALSE, "absent", FALSE, "none", <<>>)

\* The backend's contract: which bodies carry a success flag.
HasFlag(res, op) == res = "items" \/ (res = "orders" /\ op # "list")

\* The body shapes a list endpoint may answer with.
ListShapes(res) == IF res = "items" THEN {"envelope"} ELSE {"array", "envelope"}

BadBodies == {MkResp("badjson", ok, "absent", FALSE, "none", <<>>) : ok \in BOOLEAN}

\* What the backend answers when it does not carry a request out.
FailureResponses(res, op) ==
  {MkResp("json", FALSE, IF HasFlag(res, op) THEN "false" ELSE "absent", m, "none", <<>>) :
     m \in BOOLEAN}
  \cup (IF HasFlag(res, op)
        THEN {MkResp("json", TRUE, "false", TRUE, "none", <<>>),
              MkResp("json", FALSE, "true", FALSE, "envelope", <<>>)}
        ELSE {})
  \cup BadBodies

SuccessResponse(res, op) ==
  MkResp("json", TRUE, IF HasFlag(res, op) THEN "true" ELSE "absent", FALSE, "none", <<>>)

ListResponses(res, held) ==
  {MkResp("json", TRUE, IF HasFlag(res, "list") THEN "true" ELSE "absent", FALSE, sh, held) :
     sh \in ListShapes(res)}

VARIABLES
  view,          \* the view this behaviour is of
  server,        \* the backend's records, per resource
  coll,          \* the view's collections (orders, contacts, items state)
  nonArray,      \* resources whose state holds a non-array value
  loading,       \* the view's loading flag
  error,         \* the view's inline error state
  mounted,       \* the mount effect has run
  inflight,      \* the requests awaited (a bag: two may be alike)
  nreq,          \* handler calls that issued a request
  storageToken,  \* localStorage "token"
  token,         \* the token the current render read
  form,          \* AddItemPage: formData, the selected image and its preview
  login,         \* the navbar and its login modal, with what they keep in storage
  last           \* the view's last step, with the state it started from

vars == <<view, server, coll, nonArray, loading, error, mounted, inflight, nreq,
          storageToken, token, form, login, last>>

Snapshot ==
  [coll |-> coll, nonArray |-> nonArray, loading |-> loading, error |-> error,
   nreq |-> nreq]

\* A step of the view: the handler part that ran, its arguments, the response
\* it resolved with, the fetch() calls it made, the blocking notifications
\* (window.alert) it raised, the token the storage held then, and the view's
\* state before it.
NoOutput == [result |-> "none", filename |-> "none", sheet |-> "none", rows |-> <<>>]

Step(op, res, id, status, resp, calls, alerts) ==
  [op |-> op, res |-> res, id |-> id, status |-> status, resp |-> resp,
   calls |-> calls, alerts |-> alerts, auth |-> "absent", out |-> NoOutput,
   stored |-> storageToken, pre |-> Snapshot]

\* A step that made a request, with the Authorization header it sent.
CallStep(op, res, id, status, calls, auth) ==
  [Step(op, res, id, status, NoResp, calls, 0) EXCEPT !.auth = auth]

\* useState([]) / useState(true) / useState(null); ListItemsPage and
\* AddItemPage: useState(false).
InitialLoading(v) == v \notin {"ListItemsPage", "AddItemPage", "AdminLoginModal"}

\* AddItemPage: useState({ name: "", description: "", category: "", price: "",
\* rating: 0, popularity: 0 }), useState(null) of selectedImage and of
\* imagePreview; reading: a FileReader has yet to deliver a preview.  (The
\* description, which nothing reads but the request body, is left out.)
EmptyForm ==
  [name |-> "", category |-> "", price |-> "", rating |-> 0, popularity |-> 0,
   selectedImage |-> "null", imagePreview |-> "null", reading |-> FALSE]

\* What the text input and the select may hold.
FieldValues == {"", "x"}

\* What the number inputs (no min, no step) may hold: nothing, a positive
\* and a negative number.
PriceTexts == {"", "5", "-5"}
PopularityTexts == {"", "7", "-3"}

\* The fields handleSubmit requires, with what their inputs may hold.
RequiredFields == {"name", "category", "price"}
InputValues(f) == IF f = "price" THEN PriceTexts ELSE FieldValues

\* The stars of the rating control: [1, 2, 3, 4, 5], of which the first and
\* the last are clicked here.
Stars == {1, 5}

\* AdminLoginModal: useState({ email: "", password: "" }), useState(false) of
\* loading, useState("") of error; AdminNavbar: useState(false) of isLoginOpen
\* and of isLoggedIn, its mount effect yet to run; localStorage without
\* "adminToken" and "adminUser"; the route the app is at.
InitialLogin ==
  [email |-> "", password |-> "", loading |-> FALSE, error |-> "",
   isLoginOpen |-> FALSE, isLoggedIn |-> FALSE, navMounted |-> FALSE,
   adminToken |-> "none", adminUser |-> "none", route |-> "/additem"]

InitOf(v) ==
  /\ view = v
  /\ login = InitialLogin
  /\ \E n \in [Resources -> 0..MaxRecs] :
       server = [r \in Resources |->
                   IF r \in ViewResources(view) THEN InitialRecords(r, n[r]) ELSE <<>>]
       /\ \A r \in Resources \ ViewResources(view) : n[r] = 0
  /\ coll = [r \in Resources |-> <<>>]
  /\ nonArray = {}
  /\ loading = InitialLoading(view)
  /\ error = NoError
  /\ mounted = FALSE
  /\ inflight = EmptyBag
  /\ nreq = 0
  /\ storageToken \in Tokens
  /\ token = storageToken
  /\ form = EmptyForm
  /\ last = [op |-> "construct", res |-> "none", id |-> 0, status |-> "none",
             resp |-> NoResp, calls |-> 0, alerts |-> 0, auth |-> "absent",
             out |-> NoOutput, stored |-> storageToken, pre |-> Snapshot]

\* The dedicated views: OrderManagement, ContactManagement, ListItemsPage.
Init == \E v \in Views \ {"AdminPanel", "AdminLoginModal"} : InitOf(v)

\* The combined panel.
PanelInit == InitOf("AdminPanel")

(***************************************************************************)
(* Render derivation                                                       *)
(***************************************************************************)
\* if (error) / error ? ... : a set, non-empty message.
Truthy(err) == err \notin {NoError, ""}

\* Every status shown as on its way.
getDeliveryPillPlain(status) == [label |-> "Out for Delivery", tone |-> "blue"]

\* getDeliveryPill
getDeliveryPill(status) ==
  CASE status = "delivered" -> [label |-> "Delivered", tone |-> "green"]
    [] status = "cancelled" -> [label |-> "Cancelled", tone |-> "red"]
    [] OTHER -> [label |-> "Out for Delivery", tone |-> "blue"]

MkRow(kind, id, text, pill) ==
  [kind |-> kind, id |-> id, text |-> text, tone |-> pill.tone, label |-> pill.label]

NoPill == [label |-> "none", tone |-> "none"]
LoadingRow == MkRow("loading", 0, "Loading", NoPill)
ErrorRow(err) == MkRow("error", 0, err, NoPill)
EmptyRow == MkRow("empty", 0, "No records found", NoPill)
OrderRow(o) == MkRow("record", o.id, o.status, getDeliveryPill(o.status))
RecordRow(c) == MkRow("record", c.id, "none", NoPill)

\* OrderManagement / AdminPanel: orderContent
orderContent(orders, ld, err) ==
  IF ld THEN <<LoadingRow>>
  ELSE IF Truthy(err) THEN <<ErrorRow(err)>>
  ELSE IF Len(orders) = 0 THEN <<EmptyRow>>
  ELSE [i \in DOMAIN orders |-> OrderRow(orders[i])]

\* ContactManagement: tbody
contactContent(contacts, ld, err) ==
  IF ld THEN <<LoadingRow>>
  ELSE IF Truthy(err) THEN <<ErrorRow(err)>>
  ELSE IF Len(contacts) # 0 THEN [i \in DOMAIN contacts |-> RecordRow(contacts[i])]
  ELSE <<EmptyRow>>

\* ListItemsPage: the list body (there is no error state)
itemContent(items, ld) ==
  IF ld THEN <<LoadingRow>>
  ELSE IF Len(items) = 0 THEN <<EmptyRow>>
  ELSE [i \in DOMAIN items |-> RecordRow(items[i])]

\* AdminPanel: the contacts tbody
panelContactContent(contacts) ==
  IF Len(contacts) # 0 THEN [i \in DOMAIN contacts |-> RecordRow(contacts[i])]
  ELSE <<EmptyRow>>

\* The rows a view shows in the table of one of its resources.
TableOf(v, res, c, ld, err) ==
  CASE v = "OrderManagement" -> orderContent(c[res], ld, err)
    [] v = "ContactManagement" -> contactContent(c[res], ld, err)
    [] v = "ListItemsPage" -> itemContent(c[res], ld)
    [] OTHER -> IF res = "orders" THEN orderContent(c[res], ld, err)
                ELSE panelContactContent(c[res])

Table(res) == TableOf(view, res, coll, loading, error)

\* The row of record id is rendered, and with it the row's controls.
RowShown(res, id) ==
  \E i \in DOMAIN Table(res) : Table(res)[i].kind = "record" /\ Table(res)[i].id = id

(***************************************************************************)
(* Requests                                                                *)
(***************************************************************************)
\* Authorization: token ? `Bearer ${token}` : ""
Authorization(res, tok) ==
  IF res = "orders" THEN (IF tok # "none" THEN "Bearer tok" ELSE "") ELSE "absent"

\* stage: "sent", then "done" once the backend has carried the request out
\* (held: what a list request read).  stage2, held2: the contacts request
\* of the AdminPanel's fetchData ("na" elsewhere).
MkReq(op, res, id, status, snap, second) ==
  [op |-> op, res |-> res, id |-> id, status |-> status, snap |-> snap,
   stage |-> "sent", held |-> <<>>, stage2 |-> second, held2 |-> <<>>]

Issue(r) ==
  /\ inflight' = inflight (+) SetToBag({r})
  /\ nreq' = nreq + 1

\* The request r goes on as r2.
Replace(r, r2) == (inflight (-) SetToBag({r})) (+) SetToBag({r2})

ListResource(v) == IF v = "AdminPanel" THEN "orders" ELSE CHOOSE r \in ViewResources(v) : TRUE

(***************************************************************************)
(* The fetch effect: fetchOrders / fetchContacts / fetchItems / fetchData  *)
(* up to the await.                                                        *)
(***************************************************************************)
fetchCall(tok) ==
  /\ loading' = TRUE
  /\ error' = IF view = "ListItemsPage" THEN error ELSE NoError
  /\ Issue(MkReq("list", ListResource(view), 0, "none", <<>>,
                 IF view = "AdminPanel" THEN "sent" ELSE "na"))
  /\ last' = CallStep("fetchCall", ListResource(view), 0, "none",
                      IF view = "AdminPanel" THEN 2 ELSE 1,
                      Authorization(ListResource(view), tok))

\* useEffect(() => { fetch...() }, [...]) on mount.
MountEffect ==
  /\ view # "AddItemPage"
  /\ ~mounted
  /\ mounted' = TRUE
  /\ fetchCall(token)
  /\ UNCHANGED <<login, view, form, server, coll, nonArray, storageToken, token>>

\* localStorage "token" written outside the view (logout, another tab), for
\* the views that read it.
TokenChange ==
  /\ RefetchesOnToken(view)
  /\ nreq < ReqBound(view)
  /\ \E t \in Tokens \ {storageToken} : storageToken' = t
  /\ UNCHANGED <<login, view, form, server, coll, nonArray, loading, error, mounted, inflight, nreq,
                 token, last>>

\* A render that reads another token than the last one: the effect's
\* dependency [token] changed, so the fetch runs again.
Rerender ==
  /\ mounted
  /\ RefetchesOnToken(view)
  /\ storageToken # token
  /\ nreq < ReqBound(view)
  /\ token' = storageToken
  /\ fetchCall(storageToken)
  /\ UNCHANGED <<login, view, form, server, coll, nonArray, mounted, storageToken>>

(***************************************************************************)
(* Mutations up to the await                                               *)
(***************************************************************************)
\* if (!window.confirm(...)) return
ProceedsAlways(confirmed) == TRUE

ProceedsAfterConfirm(confirmed) == confirmed

\* The click on a row's delete control, the answer to the prompt, and, when
\* the handler goes on, the DELETE request.
DeleteCall(res, id, confirmed) ==
  /\ res \in ViewResources(view)
  /\ RowShown(res, id)
  /\ IF ProceedsAfterConfirm(confirmed)
     THEN /\ nreq < ReqBound(view)
          /\ Issue(MkReq("delete", res, id, "none",
                         IF res = "items" THEN coll[res] ELSE <<>>, "na"))
          /\ last' = CallStep(IF confirmed THEN "deleteCall" ELSE "deleteDeclined",
                              res, id, "none", 1, Authorization(res, token))
     ELSE /\ last' = Step("deleteDeclined", res, id, "none", NoResp, 0, 0)
          /\ UNCHANGED <<inflight, nreq>>
  /\ UNCHANGED <<login, view, form, server, coll, nonArray, loading, error, mounted, storageToken, token>>

deleteOrder(id, confirmed) == DeleteCall("orders", id, confirmed)
deleteContact(id, confirmed) == DeleteCall("contacts", id, confirmed)
handleDelete(id, confirmed) == DeleteCall("items", id, confirmed)

\* onChange of the row's select: a status other than the one shown.
updateStatus(id, newStatus) ==
  /\ "orders" \in ViewResources(view)
  /\ RowShown("orders", id)
  /\ \E i \in DOMAIN coll["orders"] :
       coll["orders"][i].id = id /\ coll["orders"][i].status # newStatus
  /\ nreq < ReqBound(view)
  /\ Issue(MkReq("update", "orders", id, newStatus, <<>>, "na"))
  /\ last' = CallStep("updateCall", "orders", id, newStatus, 1,
                      Authorization("orders", token))
  /\ UNCHANGED <<login, view, form, server, coll, nonArray, loading, error, mounted, storageToken, token>>

(***************************************************************************)
(* Export: exportOrdersToExcel / exportContactsToExcel                     *)
(***************************************************************************)
\* o.field of a record that may lack the field: <<value>>, or <<>> for
\* undefined.
Field(o, f) == IF f \in DOMAIN o THEN <<o[f]>> ELSE <<>>

\* The cells of a row: a string, a number, a formatted date, or undefined
\* (which json_to_sheet leaves out of the sheet).
StrCell(v) == IF v = <<>> THEN <<"undefined">> ELSE <<"str", v[1]>>
NumCell(v) == IF v = <<>> THEN <<"undefined">> ELSE <<"num", v[1]>>
EmptyString == <<"str", "">>

\* value || ""
OrEmpty(v) == IF v = <<>> THEN "" ELSE v[1]

\* `${o.firstName || ""} ${o.lastName || ""}`
FullName(first, lastName) == <<"str", OrEmpty(first), " ", OrEmpty(lastName)>>

\* d ? new Date(d).toLocaleString(...) : "\u2014" (written "-" here)
formatDate(d) == IF d = <<>> THEN <<"str", "-">> ELSE <<"date", d[1]>>

RECURSIVE SumQuantity(_)
SumQuantity(items) ==
  IF items = <<>> THEN 0
  ELSE (IF "quantity" \in DOMAIN Head(items) THEN Head(items).quantity ELSE 0)
       + SumQuantity(Tail(items))

\* (items = []) => items.reduce((n, i) => n + (i.quantity || 0), 0)
totalQty(items) == <<"num", IF items = <<>> THEN 0 ELSE SumQuantity(items[1])>>

\* The object orders.map builds for one order.
OrderExportRow(o) ==
  [ID |-> NumCell(Field(o, "id")),
   Name |-> FullName(Field(o, "firstName"), Field(o, "lastName")),
   Email |-> NumCell(Field(o, "email")),
   Phone |-> StrCell(Field(o, "phone")),
   Address |-> StrCell(Field(o, "address")),
   City |-> StrCell(Field(o, "city")),
   ZipCode |-> StrCell(Field(o, "zipCode")),
   Payment |-> StrCell(Field(o, "paymentMethod")),
   Status |-> StrCell(Field(o, "status")),
   TotalItems |-> totalQty(Field(o, "items")),
   TotalPrice |-> NumCell(Field(o, "totalPrice")),
   CreatedAt |-> formatDate(Field(o, "createdAt"))]

\* The object contacts.map builds for one contact.
ContactExportRow(c) ==
  [ID |-> NumCell(Field(c, "id")),
   Name |-> StrCell(Field(c, "fullName")),
   Email |-> StrCell(Field(c, "emailAddress")),
   Phone |-> StrCell(Field(c, "phoneNumber")),
   Address |-> StrCell(Field(c, "address")),
   Dish |-> StrCell(Field(c, "dishName")),
   Message |-> StrCell(Field(c, "query")),
   CreatedAt |-> formatDate(Field(c, "createdAt"))]

\* The rows in the opposite order.
ExportRowsReversed(res, c) ==
  [i \in DOMAIN c |->
     IF res = "orders" THEN OrderExportRow(c[Len(c) + 1 - i])
     ELSE ContactExportRow(c[Len(c) + 1 - i])]

ExportRows(res, c) ==
  [i \in DOMAIN c |->
     IF res = "orders" THEN OrderExportRow(c[i]) ELSE ContactExportRow(c[i])]

\* The collection the handler maps: the state of the render it belongs to.
ExportSourceFresh(res) == server[res]

ExportSource(res) == coll[res]

Filename(res) == IF res = "orders" THEN "Orders_Report.xlsx" ELSE "Contacts_Report.xlsx"
SheetName(res) == IF res = "orders" THEN "Orders" ELSE "Contacts"

\* The download function the module calls is defined in the module:
\* downloadFile in Contact-management.jsx, saveAs imported in the AdminPanel;
\* Order-management.jsx calls downloadFile and neither defines nor imports it.
DownloadDefined(v) == v # "OrderManagement"

\* How the handler ends: with the workbook handed to the download, or with
\* an exception (contacts.map of a non-array; the undefined downloadFile).
ExportOutcome(v, res) ==
  IF res \in nonArray THEN [NoOutput EXCEPT !.result = "exception"]
  ELSE IF ~DownloadDefined(v)
       THEN [NoOutput EXCEPT !.result = "exception", !.sheet = SheetName(res),
                             !.rows = ExportRows(res, ExportSource(res))]
       ELSE [result |-> "downloaded", filename |-> Filename(res), sheet |-> SheetName(res),
             rows |-> ExportRows(res, ExportSource(res))]

\* onClick of the Export Excel button.
Export(res) ==
  /\ res \in ViewResources(view) \ {"items"}
  /\ last' = [Step("export", res, 0, "none", NoResp, 0, 0) EXCEPT
                !.out = ExportOutcome(view, res)]
  /\ UNCHANGED <<login, view, form, server, coll, nonArray, loading, error, mounted, inflight,
                 nreq, storageToken, token>>

exportOrdersToExcel == Export("orders")
exportContactsToExcel == Export("contacts")

(***************************************************************************)
(* AddItemPage: the form and handleSubmit up to the await                  *)
(***************************************************************************)
\* onChange of an input: setFormData({ ...formData, [field]: value })
EditForm(f, v) ==
  /\ view = "AddItemPage"
  /\ f \in RequiredFields
  /\ v \in InputValues(f)
  /\ form[f] # v
  /\ form' = [form EXCEPT ![f] = v]
  /\ UNCHANGED <<login, view, server, coll, nonArray, loading, error, mounted, inflight, nreq,
                 storageToken, token, last>>

\* if (!formData.name || !formData.category || !formData.price)
MissingRequired(fd) == fd.name = "" \/ fd.category = "" \/ fd.price = ""

\* The number a text of a number input stands for: <<n>>, or <<>> for none.
NumberOf(text) ==
  CASE text = "5" -> <<5>>
    [] text = "7" -> <<7>>
    [] text = "-3" -> <<0 - 3>>
    [] text = "-5" -> <<0 - 5>>
    [] OTHER -> <<>>

\* parseInt(e.target.value) || 0
ParseIntOrZero(text) == IF NumberOf(text) = <<>> THEN 0 ELSE NumberOf(text)[1]

\* onChange of the popularity input.
EditPopularity(text) ==
  /\ view = "AddItemPage"
  /\ form.popularity # ParseIntOrZero(text)
  /\ form' = [form EXCEPT !.popularity = ParseIntOrZero(text)]
  /\ UNCHANGED <<login, view, server, coll, nonArray, loading, error, mounted, inflight, nreq,
                 storageToken, token, last>>

\* onClick of a star: setFormData((prev) => ({ ...prev, rating }))
handleRatingClick(rating) ==
  /\ view = "AddItemPage"
  /\ form.rating # rating
  /\ form' = [form EXCEPT !.rating = rating]
  /\ UNCHANGED <<login, view, server, coll, nonArray, loading, error, mounted, inflight, nreq,
                 storageToken, token, last>>

\* onChange of the file input with a file chosen: setSelectedImage(file),
\* and a FileReader started whose onload sets the preview.
handleImageUpload ==
  /\ view = "AddItemPage"
  /\ ~form.reading
  /\ form' = [form EXCEPT !.selectedImage = "file", !.reading = TRUE]
  /\ UNCHANGED <<login, view, server, coll, nonArray, loading, error, mounted, inflight, nreq,
                 storageToken, token, last>>

\* reader.onload = (e) => setImagePreview(e.target.result)
readerOnload ==
  /\ view = "AddItemPage"
  /\ form.reading
  /\ form' = [form EXCEPT !.imagePreview = "dataurl", !.reading = FALSE]
  /\ UNCHANGED <<login, view, server, coll, nonArray, loading, error, mounted, inflight, nreq,
                 storageToken, token, last>>

\* The multipart body: every entry of formData, and the image if one is
\* selected.  (FormData carries each value as its text; the numbers stand
\* for that text here.)
CreateBody(fd) ==
  [name |-> fd.name, category |-> fd.category, price |-> fd.price,
   rating |-> fd.rating, popularity |-> fd.popularity,
   image |-> fd.selectedImage # "null"]

\* onSubmit of the form, whose submit button is disabled while loading.  The
\* test of the required fields is the handler's own; the inputs' required
\* attribute, which the browser checks before it raises the event, is not
\* relied on.
handleSubmit ==
  /\ view = "AddItemPage"
  /\ ~loading
  /\ IF MissingRequired(form)
     THEN /\ last' = Step("createRejected", "items", 0, "none", NoResp, 0, 1)
          /\ UNCHANGED <<loading, inflight, nreq>>
     ELSE /\ nreq < ReqBound(view)
          /\ loading' = TRUE
          /\ Issue(MkReq("create", "items", 0, "none", CreateBody(form), "na"))
          /\ last' = CallStep("createCall", "items", 0, "none", 1, "absent")
  /\ UNCHANGED <<login, view, form, server, coll, nonArray, error, mounted, storageToken, token>>

(***************************************************************************)
(* The backend                                                             *)
(***************************************************************************)
Applied(r) ==
  IF r.op = "delete" THEN SelectSeq(server[r.res], LAMBDA o : o.id # r.id)
  ELSE [i \in DOMAIN server[r.res] |->
          IF server[r.res][i].id = r.id
          THEN [server[r.res][i] EXCEPT !.status = r.status]
          ELSE server[r.res][i]]

\* The backend carries a mutation out on a record it holds.
ServerMutation(r) ==
  /\ BagIn(r, inflight)
  /\ r.op # "list"
  /\ r.stage = "sent"
  /\ r.id \in Ids(server[r.res])
  /\ server' = [server EXCEPT ![r.res] = Applied(r)]
  /\ inflight' = Replace(r, [r EXCEPT !.stage = "done"])
  /\ UNCHANGED <<login, view, form, coll, nonArray, loading, error, mounted, nreq, storageToken, token,
                 last>>

\* The backend stores the item of a POST /api/menu request.
ServerCreate(r) ==
  /\ BagIn(r, inflight)
  /\ r.op = "create"
  /\ r.stage = "sent"
  /\ Len(server["items"]) < MaxRecs
  /\ server' = [server EXCEPT !["items"] =
                  Append(@, MkRecord("items", Len(server["items"]) + 1))]
  /\ inflight' = Replace(r, [r EXCEPT !.stage = "done"])
  /\ UNCHANGED <<login, view, form, coll, nonArray, loading, error, mounted, nreq, storageToken,
                 token, last>>

\* The backend reads what it holds for a list request.
ServerList(r) ==
  /\ BagIn(r, inflight)
  /\ r.op = "list"
  /\ \/ /\ r.stage = "sent"
        /\ inflight' = Replace(r, [r EXCEPT !.stage = "done", !.held = server[r.res]])
     \/ /\ r.stage2 = "sent"
        /\ inflight' = Replace(r, [r EXCEPT !.stage2 = "done",
                                            !.held2 = server["contacts"]])
  /\ UNCHANGED <<login, view, form, server, coll, nonArray, loading, error, mounted, nreq, storageToken,
                 token, last>>

\* What the backend answers to one request: success when it carried the
\* request out, a failure when it did not (and has changed nothing).
Answers(res, op, stage, held) ==
  IF stage = "done"
  THEN (IF op = "list" THEN ListResponses(res, held) ELSE {SuccessResponse(res, op)})
  ELSE FailureResponses(res, op)

(***************************************************************************)
(* Resolutions: the handlers after their await                             *)
(***************************************************************************)
\* What an awaited request may resolve with: the fetch rejects, or the
\* backend's answer arrives.
Outcomes(r) ==
  {<<TransportFailure, TransportFailure>>}
  \cup (Answers(r.res, r.op, r.stage, r.held)
        \X (IF r.stage2 = "na" THEN {NoResp}
            ELSE Answers("contacts", "list", r.stage2, r.held2)))

\* err.message of what the handler's try block threw.
ErrorMessage(resp, fallback) ==
  IF resp.kind = "transport" THEN "Failed to fetch"
  ELSE IF resp.kind = "badjson" THEN "Invalid server response (not JSON)."
  ELSE IF resp.msg THEN "server message"
  ELSE fallback

\* parseJsonSafely, then: if (!res.ok) throw
ListThrows(resp) == resp.kind # "json" \/ ~resp.ok

\* parseJsonSafely, then: if (!res.ok || !data.success) throw
OrderMutationThrows(resp) == resp.kind # "json" \/ ~resp.ok \/ resp.success # "true"

\* parseJsonSafely, then: if (!res.ok) throw
ContactDeleteThrows(resp) == resp.kind # "json" \/ ~resp.ok

\* res.json(), then: if (data.success)
ItemsSucceeded(resp) == resp.kind = "json" /\ resp.success = "true"

\* orderData.data || []
DataField(resp) == IF resp.shape = "envelope" THEN resp.data ELSE <<>>

\* Array.isArray(data) ? data : data.data || []
ArrayOrDataField(resp) == IF resp.shape \in {"array", "envelope"} THEN resp.data ELSE <<>>

\* The await of a handler returns; what follows it (try, catch, finally)
\* calls fetch no more.
ResolvedRetries(r, op) ==
  /\ BagIn(r, inflight)
  /\ r.op = op
  /\ IF nreq < ReqBound(view)
     THEN inflight' = inflight /\ nreq' = nreq + 1
     ELSE inflight' = inflight (-) SetToBag({r}) /\ nreq' = nreq

Resolved(r, op) ==
  /\ BagIn(r, inflight)
  /\ r.op = op
  /\ inflight' = inflight (-) SetToBag({r})
  /\ nreq' = nreq

\* OrderManagement: fetchOrders
fetchOrdersResolved(r, resp) ==
  /\ view = "OrderManagement"
  /\ Resolved(r, "list")
  /\ IF ListThrows(resp)
     THEN /\ error' = ErrorMessage(resp, "Failed to fetch orders")
          /\ UNCHANGED coll
     ELSE /\ coll' = [coll EXCEPT !["orders"] = DataField(resp)]
          /\ UNCHANGED error
  /\ loading' = FALSE
  /\ last' = Step("fetchResolved", "orders", 0, "none", resp, 0, 0)
  /\ UNCHANGED <<login, view, form, server, nonArray, mounted, storageToken, token>>

\* ContactManagement: fetchContacts
fetchContactsResolved(r, resp) ==
  /\ view = "ContactManagement"
  /\ Resolved(r, "list")
  /\ IF ListThrows(resp)
     THEN /\ error' = ErrorMessage(resp, "Failed to fetch contacts")
          /\ UNCHANGED coll
     ELSE /\ coll' = [coll EXCEPT !["contacts"] = ArrayOrDataField(resp)]
          /\ UNCHANGED error
  /\ loading' = FALSE
  /\ last' = Step("fetchResolved", "contacts", 0, "none", resp, 0, 0)
  /\ UNCHANGED <<login, view, form, server, nonArray, mounted, storageToken, token>>

\* ListItemsPage: fetchItems
fetchItemsResolved(r, resp) ==
  /\ view = "ListItemsPage"
  /\ Resolved(r, "list")
  /\ IF ItemsSucceeded(resp)
     THEN coll' = [coll EXCEPT !["items"] = resp.data]
     ELSE UNCHANGED coll
  /\ loading' = FALSE
  /\ last' = Step("fetchResolved", "items", 0, "none", resp, 0,
                  IF ItemsSucceeded(resp) THEN 0 ELSE 1)
  /\ UNCHANGED <<login, view, form, server, nonArray, error, mounted, storageToken, token>>

\* AdminPanel: fetchData; o and c are the orders and the contacts response.
fetchDataError(o, c) ==
  IF ListThrows(o) /\ (o.kind # "json" \/ c.kind = "json")
  THEN ErrorMessage(o, "Failed to fetch orders")
  ELSE ErrorMessage(c, "Failed to fetch contacts")

fetchDataResolved(r, o, c) ==
  /\ view = "AdminPanel"
  /\ Resolved(r, "list")
  /\ IF ListThrows(o) \/ ListThrows(c)
     THEN /\ error' = fetchDataError(o, c)
          /\ UNCHANGED <<coll, nonArray>>
     ELSE /\ coll' = [coll EXCEPT !["orders"] = DataField(o),
                                  !["contacts"] = IF c.shape = "array" THEN c.data ELSE <<>>]
          /\ nonArray' = IF c.shape = "array" THEN nonArray \ {"contacts"}
                         ELSE nonArray \cup {"contacts"}
          /\ UNCHANGED error
  /\ loading' = FALSE
  /\ last' = Step("fetchResolved", "orders", 0, "none", IF ListThrows(o) THEN o ELSE c,
                  0, 0)
  /\ UNCHANGED <<login, view, form, server, mounted, storageToken, token>>

\* OrderManagement / AdminPanel: updateStatus
updateStatusResolved(r, resp) ==
  /\ Resolved(r, "update")
  /\ IF OrderMutationThrows(resp)
     THEN UNCHANGED coll
     ELSE coll' = [coll EXCEPT !["orders"] = PatchStatus(coll["orders"], r.id, r.status)]
  /\ last' = Step("updateResolved", "orders", r.id, r.status, resp, 0,
                  IF OrderMutationThrows(resp) THEN 1 ELSE 0)
  /\ UNCHANGED <<login, view, form, server, nonArray, loading, error, mounted, storageToken, token>>

\* OrderManagement / AdminPanel: deleteOrder
deleteOrderResolved(r, resp) ==
  /\ r.res = "orders"
  /\ Resolved(r, "delete")
  /\ IF OrderMutationThrows(resp)
     THEN UNCHANGED coll
     ELSE coll' = [coll EXCEPT !["orders"] = RemoveById(coll["orders"], r.id)]
  /\ last' = Step("deleteResolved", "orders", r.id, "none", resp, 0,
                  IF OrderMutationThrows(resp) THEN 1 ELSE 0)
  /\ UNCHANGED <<login, view, form, server, nonArray, loading, error, mounted, storageToken, token>>

\* ContactManagement / AdminPanel: deleteContact
deleteContactResolved(r, resp) ==
  /\ r.res = "contacts"
  /\ Resolved(r, "delete")
  /\ IF ContactDeleteThrows(resp)
     THEN UNCHANGED coll
     ELSE coll' = [coll EXCEPT !["contacts"] = RemoveById(coll["contacts"], r.id)]
  /\ last' = Step("deleteResolved", "contacts", r.id, "none", resp, 0,
                  IF ContactDeleteThrows(resp) THEN 1 ELSE 0)
  /\ UNCHANGED <<login, view, form, server, nonArray, loading, error, mounted, storageToken, token>>

\* ListItemsPage: handleDelete; r.snap is the items the handler closed over.
handleDeleteResolved(r, resp) ==
  /\ r.res = "items"
  /\ Resolved(r, "delete")
  /\ IF ItemsSucceeded(resp)
     THEN coll' = [coll EXCEPT !["items"] = RemoveById(r.snap, r.id)]
     ELSE UNCHANGED coll
  /\ last' = Step("deleteResolved", "items", r.id, "none", resp, 0,
                  IF ItemsSucceeded(resp) THEN 0 ELSE 1)
  /\ UNCHANGED <<login, view, form, server, nonArray, loading, error, mounted, storageToken, token>>

\* AddItemPage: handleSubmit after the await
\* The success flag alone.
CreateSucceededByFlag(resp) == resp.kind = "json" /\ resp.success = "true"

\* await response.json(); if (response.ok && result.success)
CreateSucceeded(resp) == resp.kind = "json" /\ resp.ok /\ resp.success = "true"

handleSubmitResolved(r, resp) ==
  /\ view = "AddItemPage"
  /\ Resolved(r, "create")
  /\ form' = IF CreateSucceeded(resp)
             THEN [EmptyForm EXCEPT !.reading = form.reading]
             ELSE form
  /\ loading' = FALSE
  /\ last' = Step("createResolved", "items", 0, "none", resp, 0, 1)
  /\ UNCHANGED <<login, view, server, coll, nonArray, error, mounted, storageToken, token>>

Next ==
  \/ MountEffect
  \/ TokenChange
  \/ Rerender
  \/ \E id \in 1..MaxRecs, confirmed \in BOOLEAN : deleteOrder(id, confirmed)
  \/ \E id \in 1..MaxRecs, confirmed \in BOOLEAN : deleteContact(id, confirmed)
  \/ \E id \in 1..MaxRecs, confirmed \in BOOLEAN : handleDelete(id, confirmed)
  \/ \E id \in 1..MaxRecs, s \in Statuses : updateStatus(id, s)
  \/ \E r \in BagToSet(inflight) : ServerMutation(r)
  \/ \E r \in BagToSet(inflight) : ServerList(r)
  \/ \E r \in BagToSet(inflight) : \E out \in Outcomes(r) : fetchOrdersResolved(r, out[1])
  \/ \E r \in BagToSet(inflight) : \E out \in Outcomes(r) : fetchContactsResolved(r, out[1])
  \/ \E r \in BagToSet(inflight) : \E out \in Outcomes(r) : fetchItemsResolved(r, out[1])
  \/ \E r \in BagToSet(inflight) : \E out \in Outcomes(r) : updateStatusResolved(r, out[1])
  \/ \E r \in BagToSet(inflight) : \E out \in Outcomes(r) : deleteOrderResolved(r, out[1])
  \/ \E r \in BagToSet(inflight) : \E out \in Outcomes(r) : deleteContactResolved(r, out[1])
  \/ \E r \in BagToSet(inflight) : \E out \in Outcomes(r) : handleDeleteResolved(r, out[1])
  \/ exportOrdersToExcel
  \/ exportContactsToExcel
  \/ \E f \in RequiredFields : \E v \in InputValues(f) : EditForm(f, v)
  \/ handleSubmit
  \/ \E r \in BagToSet(inflight) : ServerCreate(r)
  \/ \E r \in BagToSet(inflight) : \E out \in Outcomes(r) : handleSubmitResolved(r, out[1])

Spec == Init /\ [][Next]_vars

\* An awaited fetch settles and its handler goes on: the steps after the
\* await, each taken by the browser as soon as the promise settles.
Resolve ==
  \E r \in BagToSet(inflight) : \E out \in Outcomes(r) :
    \/ fetchOrdersResolved(r, out[1])
    \/ fetchContactsResolved(r, out[1])
    \/ fetchItemsResolved(r, out[1])
    \/ updateStatusResolved(r, out[1])
    \/ deleteOrderResolved(r, out[1])
    \/ deleteContactResolved(r, out[1])
    \/ handleDeleteResolved(r, out[1])
    \/ handleSubmitResolved(r, out[1])

\* Every issued request eventually resolves.
FairSpec == Spec /\ WF_vars(Resolve)

PanelNext ==
  \/ MountEffect
  \/ TokenChange
  \/ Rerender
  \/ \E id \in 1..MaxRecs, confirmed \in BOOLEAN : deleteOrder(id, confirmed)
  \/ \E id \in 1..MaxRecs, confirmed \in BOOLEAN : deleteContact(id, confirmed)
  \/ \E id \in 1..MaxRecs, s \in Statuses : updateStatus(id, s)
  \/ \E r \in BagToSet(inflight) : ServerMutation(r)
  \/ \E r \in BagToSet(inflight) : ServerList(r)
  \/ \E r \in BagToSet(inflight) : \E out \in Outcomes(r) :
       fetchDataResolved(r, out[1], out[2])
  \/ \E r \in BagToSet(inflight) : \E out \in Outcomes(r) : updateStatusResolved(r, out[1])
  \/ \E r \in BagToSet(inflight) : \E out \in Outcomes(r) : deleteOrderResolved(r, out[1])
  \/ \E r \in BagToSet(inflight) : \E out \in Outcomes(r) : deleteContactResolved(r, out[1])
  \/ exportOrdersToExcel
  \/ exportContactsToExcel

PanelSpec == PanelInit /\ [][PanelNext]_vars

(***************************************************************************)
(* AdminNavbar and AdminLoginModal                                         *)
(***************************************************************************)
\* What POST /api/auth/login may resolve with: the fetch rejects, a body that
\* is not JSON, a refusal, the data of an admin or of another user (with
\* either status), a 2xx body without data.
LoginResponses ==
  {TransportFailure}
  \cup BadBodies
  \cup {MkResp("json", FALSE, "absent", m, "none", <<>>) : m \in BOOLEAN}
  \cup {MkResp("json", ok, "absent", FALSE, "envelope", <<[role |-> ro, token |-> "tok"]>>) :
          ok \in BOOLEAN, ro \in {"admin", "user"}}
  \cup {MkResp("json", TRUE, "absent", FALSE, "none", <<>>)}

\* AdminNavbar: useEffect(() => setIsLoggedIn(!!localStorage.getItem("token")), [])
navbarEffect ==
  /\ view = "AdminLoginModal"
  /\ ~login.navMounted
  /\ login' = [login EXCEPT !.navMounted = TRUE, !.isLoggedIn = storageToken # "none"]
  /\ UNCHANGED <<view, server, coll, nonArray, loading, error, mounted, inflight, nreq,
                 storageToken, token, form, last>>

\* AdminNavbar: onClick of the Login button, () => setIsLoginOpen(true)
openLogin ==
  /\ view = "AdminLoginModal"
  /\ login.navMounted
  /\ ~login.isLoggedIn
  /\ ~login.isLoginOpen
  /\ login' = [login EXCEPT !.isLoginOpen = TRUE]
  /\ UNCHANGED <<view, server, coll, nonArray, loading, error, mounted, inflight, nreq,
                 storageToken, token, form, last>>

\* AdminNavbar: handleLogout
handleLogout ==
  /\ view = "AdminLoginModal"
  /\ login.navMounted
  /\ login.isLoggedIn
  /\ storageToken' = "none"
  /\ login' = [login EXCEPT !.isLoggedIn = FALSE, !.route = "/orders"]
  /\ last' = Step("logout", "auth", 0, "none", NoResp, 0, 0)
  /\ UNCHANGED <<view, server, coll, nonArray, loading, error, mounted, inflight, nreq,
                 token, form>>

\* onClose: the close button, the backdrop, the Escape key.
onClose ==
  /\ view = "AdminLoginModal"
  /\ login.isLoginOpen
  /\ login' = [login EXCEPT !.isLoginOpen = FALSE]
  /\ UNCHANGED <<view, server, coll, nonArray, loading, error, mounted, inflight, nreq,
                 storageToken, token, form, last>>

\* AdminLoginModal: handleChange
handleChange(name, value) ==
  /\ view = "AdminLoginModal"
  /\ login.isLoginOpen
  /\ login[name] # value
  /\ login' = [login EXCEPT ![name] = value]
  /\ UNCHANGED <<view, server, coll, nonArray, loading, error, mounted, inflight, nreq,
                 storageToken, token, form, last>>

\* if (!formData.email || !formData.password)
MissingCredentials(l) == l.email = "" \/ l.password = ""

\* AdminLoginModal: handleSubmit up to the await (the submit button is
\* disabled while loading).
loginSubmit ==
  /\ view = "AdminLoginModal"
  /\ login.isLoginOpen
  /\ ~login.loading
  /\ IF MissingCredentials(login)
     THEN /\ login' = [login EXCEPT !.error = "All fields are required."]
          /\ last' = Step("loginRejected", "auth", 0, "none", NoResp, 0, 0)
          /\ UNCHANGED <<inflight, nreq>>
     ELSE /\ nreq < ReqBound(view)
          /\ login' = [login EXCEPT !.error = "", !.loading = TRUE]
          /\ Issue(MkReq("login", "auth", 0, "none",
                         [email |-> login.email, password |-> login.password], "na"))
          /\ last' = CallStep("loginCall", "auth", 0, "none", 1, "absent")
  /\ UNCHANGED <<view, server, coll, nonArray, loading, error, mounted, storageToken, token,
                 form>>

\* The role alone.
LoginGrantedByRole(resp) ==
  resp.kind = "json" /\ resp.data # <<>> /\ resp.data[1].role = "admin"

\* res.ok, and data.data.role === "admin"
LoginGranted(resp) ==
  resp.kind = "json" /\ resp.ok /\ resp.data # <<>> /\ resp.data[1].role = "admin"

\* The message handleSubmit sets when it does not grant the login.
LoginError(resp) ==
  IF resp.kind # "json" THEN ErrorMessage(resp, "Server error")
  ELSE IF ~resp.ok THEN (IF resp.msg THEN "server message" ELSE "Login failed")
  ELSE IF resp.data = <<>> THEN "Cannot read properties of undefined"
  ELSE "Access denied. Admin only."

\* AdminLoginModal: handleSubmit after the await.
loginResolved(r, resp) ==
  /\ view = "AdminLoginModal"
  /\ Resolved(r, "login")
  /\ login' = IF LoginGranted(resp)
              THEN [login EXCEPT !.adminToken = resp.data[1].token, !.adminUser = "data",
                                 !.isLoginOpen = FALSE, !.route = "/orders",
                                 !.loading = FALSE]
              ELSE [login EXCEPT !.error = LoginError(resp), !.loading = FALSE]
  /\ last' = Step("loginResolved", "auth", 0, "none", resp, 0, 0)
  /\ UNCHANGED <<view, server, coll, nonArray, loading, error, mounted, storageToken, token,
                 form>>

LoginInit == InitOf("AdminLoginModal")

LoginNext ==
  \/ navbarEffect
  \/ openLogin
  \/ handleLogout
  \/ onClose
  \/ \E name \in {"email", "password"}, value \in FieldValues : handleChange(name, value)
  \/ loginSubmit
  \/ \E r \in BagToSet(inflight) : \E resp \in LoginResponses : loginResolved(r, resp)

LoginSpec == LoginInit /\ [][LoginNext]_vars

\* The add-item form with all of its controls.
FormInit == InitOf("AddItemPage")

FormNext ==
  \/ \E f \in RequiredFields : \E v \in InputValues(f) : EditForm(f, v)
  \/ \E text \in PopularityTexts : EditPopularity(text)
  \/ \E star \in Stars : handleRatingClick(star)
  \/ handleImageUpload
  \/ readerOnload
  \/ handleSubmit
  \/ \E r \in BagToSet(inflight) : ServerCreate(r)
  \/ \E r \in BagToSet(inflight) : \E out \in Outcomes(r) : handleSubmitResolved(r, out[1])

FormSpec == FormInit /\ [][FormNext]_vars

(***************************************************************************)
(* Properties                                                              *)
(***************************************************************************)
\* The gateway's contract of a call that succeeded: the request completed,
\* the body parsed, the status is in the success range and, where the body
\* carries a success flag, the flag is true.
GatewaySuccess(res, op, resp) ==
  /\ resp.kind = "json"
  /\ resp.ok
  /\ HasFlag(res, op) => resp.success = "true"

DeleteSucceeded(l) ==
  l.op = "deleteResolved" /\ GatewaySuccess(l.res, "delete", l.resp)

UpdateSucceeded(l) ==
  l.op = "updateResolved" /\ GatewaySuccess(l.res, "update", l.resp)

MutationFailed(l) ==
  \/ l.op = "deleteResolved" /\ ~GatewaySuccess(l.res, "delete", l.resp)
  \/ l.op = "updateResolved" /\ ~GatewaySuccess(l.res, "update", l.resp)

\* Every record of before other than those of the ids is a record of after.
OthersKept(before, after, ids) ==
  \A i \in DOMAIN before :
    before[i].id \notin ids => \E j \in DOMAIN after : after[j] = before[i]

\* C1: after a delete of an id the collection holds, resolved with the
\* server's success, the collection is one record shorter, holds no record
\* of that id, and holds every other record it held, unchanged (here: for the
\* deletes that resolve right after a step that was not a failed mutation).
C1_DeleteRemovesExactlyThatRecord ==
  [][( /\ last' # last
       /\ DeleteSucceeded(last')
       /\ ~MutationFailed(last)
       /\ last'.id \in Ids(coll[last'.res]) )
     => /\ Len(coll'[last'.res]) = Len(coll[last'.res]) - 1
        /\ last'.id \notin Ids(coll'[last'.res])
        /\ OthersKept(coll[last'.res], coll'[last'.res], {last'.id})]_vars

\* C2: two deletes of different ids, both in flight at once and both
\* successful: once the second has resolved (here: right after the first)
\* the collection holds neither id and every other record it held before.
C2_ConcurrentDeletesBothApplied ==
  [][\A r \in BagToSet(inflight) :
       ( /\ DeleteSucceeded(last)
         /\ r.op = "delete" /\ r.res = last.res /\ r.id # last.id
         /\ {last.id, r.id} \subseteq Ids(last.pre.coll[last.res])
         /\ DeleteSucceeded(last') /\ last'.id = r.id
         /\ inflight' = inflight (-) SetToBag({r}) )
       => /\ last.id \notin Ids(coll'[last.res])
          /\ r.id \notin Ids(coll'[last.res])
          /\ OthersKept(last.pre.coll[last.res], coll'[last.res], {last.id, r.id})]_vars

\* The local collections hold the records the backend holds, each order with
\* the backend's status.
InSync ==
  \A res \in ViewResources(view) :
    /\ Ids(coll[res]) = Ids(server[res])
    /\ \A i \in DOMAIN coll[res], j \in DOMAIN server[res] :
         coll[res][i].id = server[res][j].id => coll[res][i].status = server[res][j].status

\* C3: once every mutation in flight has resolved, the local collection
\* reflects the backend's state (here: in the runs whose last two steps are
\* status updates that resolved with success, the second leaving nothing in
\* flight).
C3_LocalReflectsServerOnceResolved ==
  [][( /\ UpdateSucceeded(last)
       /\ UpdateSucceeded(last')
       /\ BagToSet(inflight) # {}
       /\ BagToSet(inflight') = {} )
     => InSync']_vars

\* C4: a delete or status update that fails leaves the collection and the
\* inline error as they were, and raises one blocking notification.
C4_FailedMutationLeavesState ==
  MutationFailed(last)
  => /\ coll = last.pre.coll
     /\ error = last.pre.error
     /\ last.alerts = 1

\* C5: a declined confirmation issues no request and leaves the collection,
\* the loading flag and the error state unchanged.
C5_DeclinedDeleteDoesNothing ==
  last.op = "deleteDeclined"
  => /\ nreq = last.pre.nreq
     /\ last.calls = 0
     /\ coll = last.pre.coll
     /\ loading = last.pre.loading
     /\ error = last.pre.error

C5_Witness ==
  /\ last.op = "deleteDeclined"
  /\ Len(coll[last.res]) = 2
  /\ BagToSet(inflight) # {}

C7_StateAfterConstruction ==
  (view # "AddItemPage" /\ last.op \in {"construct", "fetchCall"} /\ last.pre.nreq = 0)
  => /\ loading = TRUE
     /\ error = NoError
     /\ \A res \in ViewResources(view) : coll[res] = <<>>

\* C8: after a failed list fetch exactly one error row is rendered, loading
\* is false and the collection is what it was.
C8_FailedFetchShowsOneErrorRow ==
  (last.op = "fetchResolved" /\ ~GatewaySuccess(last.res, "list", last.resp))
  => /\ Len(Table(last.res)) = 1
     /\ Table(last.res)[1].kind = "error"
     /\ loading = FALSE
     /\ coll = last.pre.coll

\* C9: after a successful list fetch of N records the table has N rows and
\* neither the loading row nor the error row (here: for N >= 1 and a body
\* that is an envelope with a data field, which every controller reads).
C9_SuccessfulFetchShowsNRows ==
  ( /\ last.op = "fetchResolved"
    /\ GatewaySuccess(last.res, "list", last.resp)
    /\ last.resp.shape = "envelope"
    /\ Len(last.resp.data) >= 1 )
  => /\ Len(Table(last.res)) = Len(last.resp.data)
     /\ \A i \in DOMAIN Table(last.res) : Table(last.res)[i].kind \notin {"loading", "error"}

\* The four-way precedence of the render derivation.
Precedence(c, ld, err) ==
  IF ld THEN <<"loading">>
  ELSE IF err # NoError THEN <<"error">>
  ELSE IF Len(c) > 0 THEN [i \in DOMAIN c |-> "record"]
  ELSE <<"empty">>

Kinds(rows) == [i \in DOMAIN rows |-> rows[i].kind]

\* C10: in every table of every view the rows are: a loading row if loading;
\* else an error row if error is set; else one row per record; else an
\* empty-state row.
C10_RowsFollowPrecedence ==
  \A res \in ViewResources(view) :
    Kinds(Table(res)) = Precedence(coll[res], loading, error)

ResolutionOps == {"fetchResolved", "updateResolved", "deleteResolved"}

\* C11: a response whose status is outside the success range is a failure
\* even when its body parses and carries a success flag: the step that
\* resolves with it applies no patch and replaces no collection.
C11_NonSuccessStatusIsFailure ==
  (last.op \in ResolutionOps /\ last.resp.kind = "json" /\ ~last.resp.ok)
  => coll = last.pre.coll

\* C12: a response with status 200 whose body is not valid JSON is a failure:
\* a list fetch sets the error state and leaves the collection unchanged, a
\* mutation applies no patch.
C12_UnparsableBodyIsFailure ==
  (last.op \in ResolutionOps /\ last.resp.kind = "badjson" /\ last.resp.ok)
  => /\ coll = last.pre.coll
     /\ last.op = "fetchResolved" => error # NoError

\* C13: a successful list fetch replaces the whole collection with the
\* returned records, whether the body is a bare array or an envelope with a
\* data field, and sets loading to false.
C13_FetchReplacesCollectionEitherShape ==
  (last.op = "fetchResolved" /\ GatewaySuccess(last.res, "list", last.resp))
  => /\ coll[last.res] = last.resp.data
     /\ loading = FALSE

\* In this step the record of id leaves the collection of res or changes
\* its status there.
LocallyChanged(res, id) ==
  \/ id \notin Ids(coll'[res])
  \/ \E i \in DOMAIN coll[res], j \in DOMAIN coll'[res] :
       /\ coll[res][i].id = id
       /\ coll'[res][j].id = id
       /\ coll'[res][j].status # coll[res][i].status

\* C14: a record is removed or its status changed locally (other than by a
\* list fetch replacing the collection) only in the step in which a
\* mutation request for that record resolves successfully.
C14_PatchOnlyAfterOwnSuccess ==
  [][\A res \in ViewResources(view) : \A id \in Ids(coll[res]) :
       (LocallyChanged(res, id) /\ last'.op # "fetchResolved")
       => \E r \in BagToSet(inflight) :
            /\ r.res = res /\ r.id = id /\ r.op \in {"delete", "update"}
            /\ inflight' = inflight (-) SetToBag({r})
            /\ last'.op = (IF r.op = "delete" THEN "deleteResolved" ELSE "updateResolved")
            /\ GatewaySuccess(res, r.op, last'.resp)]_vars

\* C15: a confirmed delete issues a request whether or not a record of that
\* id is still held locally; when the request of an id that is no longer
\* held is reported as failed, the collection is unchanged.
C15_SecondDeleteReachesServer ==
  /\ last.op = "deleteCall" => (last.calls = 1 /\ nreq = last.pre.nreq + 1)
  /\ ( /\ last.op = "deleteResolved"
       /\ ~GatewaySuccess(last.res, "delete", last.resp)
       /\ last.id \notin Ids(last.pre.coll[last.res]) )
     => coll = last.pre.coll

CallOps == {"fetchCall", "deleteCall", "updateCall", "createCall"}

\* C16: nothing is retried: a mount-time (or token-change) fetch issues one
\* request per list it loads, a confirmed delete, a status update and a
\* valid create issue exactly one request, and no other step of the view, a
\* failed resolution least of all, issues any.
C16_NoRetry ==
  /\ last.op = "fetchCall" => last.calls = Cardinality(ViewResources(view))
  /\ last.op \in CallOps \ {"fetchCall"} => last.calls = 1
  /\ last.op \in CallOps => nreq = last.pre.nreq + 1
  /\ last.op \notin CallOps => (last.calls = 0 /\ nreq = last.pre.nreq)

C16_Witness ==
  /\ last.op \in ResolutionOps \cup {"createResolved"}
  /\ last.resp.kind \in {"transport", "badjson"}
  /\ last.pre.nreq = 2
  /\ BagToSet(inflight) = {}

\* ---------------------------------------------------------------------------
\* Export

OrderColumns ==
  {"ID", "Name", "Email", "Phone", "Address", "City", "ZipCode", "Payment",
   "Status", "TotalItems", "TotalPrice", "CreatedAt"}
ContactColumns ==
  {"ID", "Name", "Email", "Phone", "Address", "Dish", "Message", "CreatedAt"}
Columns(res) == IF res = "orders" THEN OrderColumns ELSE ContactColumns

\* The fields of a record a column is computed from.
SourceFields(res, col) ==
  IF res = "orders"
  THEN CASE col = "ID" -> {"id"}
         [] col = "Name" -> {"firstName", "lastName"}
         [] col = "Email" -> {"email"}
         [] col = "Phone" -> {"phone"}
         [] col = "Address" -> {"address"}
         [] col = "City" -> {"city"}
         [] col = "ZipCode" -> {"zipCode"}
         [] col = "Payment" -> {"paymentMethod"}
         [] col = "Status" -> {"status"}
         [] col = "TotalItems" -> {"items"}
         [] col = "TotalPrice" -> {"totalPrice"}
         [] col = "CreatedAt" -> {"createdAt"}
  ELSE CASE col = "ID" -> {"id"}
         [] col = "Name" -> {"fullName"}
         [] col = "Email" -> {"emailAddress"}
         [] col = "Phone" -> {"phoneNumber"}
         [] col = "Address" -> {"address"}
         [] col = "Dish" -> {"dishName"}
         [] col = "Message" -> {"query"}
         [] col = "CreatedAt" -> {"createdAt"}

SourceMissing(res, rec, col) == SourceFields(res, col) \cap DOMAIN rec = {}

\* An export that handed a workbook to the download.
Exported == last.op = "export" /\ last.out.result = "downloaded"

\* One row per record of the exported collection, in the collection's order,
\* each with exactly the declared columns.
RowPerRecord ==
  LET c == last.pre.coll[last.res]
      rows == last.out.rows
  IN /\ Len(rows) = Len(c)
     /\ \A i \in DOMAIN rows :
          /\ DOMAIN rows[i] = Columns(last.res)
          /\ rows[i].ID = <<"num", c[i].id>>

\* What a column holds when its source field is missing.
MissingCell(res, col) ==
  CASE col = "CreatedAt" -> <<"str", "-">>
    [] col = "TotalItems" /\ res = "orders" -> <<"num", 0>>
    [] col = "Name" /\ res = "orders" -> <<"str", "", " ", "">>
    [] OTHER -> <<"undefined">>

C18_ExportAlwaysDownloads ==
  (last.op = "export" /\ last.res \notin last.pre.nonArray) =>
    /\ last.out.result = "downloaded"
    /\ last.out.filename =
         (IF last.res = "orders" THEN "Orders_Report.xlsx" ELSE "Contacts_Report.xlsx")

\* C19: an export projects the collection the view held when it was invoked,
\* makes no request, and leaves the collection, loading and error as they
\* were.
C19_ExportReadsLocalState ==
  last.op = "export" =>
    /\ last.calls = 0
    /\ nreq = last.pre.nreq
    /\ coll = last.pre.coll
    /\ nonArray = last.pre.nonArray
    /\ loading = last.pre.loading
    /\ error = last.pre.error
    /\ last.res \notin last.pre.nonArray
         => last.out.rows = ExportRows(last.res, last.pre.coll[last.res])

\* A contact export of a non-empty collection that the backend no longer
\* holds in that form (a delete is on its way back).
C19_Witness ==
  /\ Exported
  /\ last.res = "contacts"
  /\ Len(last.out.rows) = 2
  /\ Len(server["contacts"]) = 1
  /\ coll = last.pre.coll

\* C20 (as stated): every request for orders (list, status update, delete)
\* carries Authorization: Bearer <token> when the persisted storage holds a
\* token at the time of the request and an empty header otherwise; requests
\* for contacts and menu items carry no Authorization header.  Stated for the
\* requests of a mounted view whose latest render read the storage as it
\* stood at the view's latest step.
C20_OrderRequestsCarryStoredToken ==
  [][(mounted /\ token = last.stored /\ last' # last /\ last'.op \in CallOps) =>
       last'.auth = (IF last'.res = "orders"
                     THEN (IF storageToken # "none" THEN "Bearer tok" ELSE "")
                     ELSE "absent")]_vars

\* ---------------------------------------------------------------------------
\* Failure messages, rendered rows, the add-item form

\* The table of res shows an error row with a non-empty text.
ErrorRowShown(res) ==
  \E i \in DOMAIN Table(res) : Table(res)[i].kind = "error" /\ Table(res)[i].text # ""

CreateFailed(l) ==
  l.op = "createResolved" /\ ~GatewaySuccess("items", "create", l.resp)

\* C21: every failure produces a visible, non-empty message: after a failed
\* list fetch the inline error is a non-empty string and the error row is
\* shown; a failed mutation raises a notification.
C21_FailureShowsMessage ==
  /\ (last.op = "fetchResolved" /\ ~GatewaySuccess(last.res, "list", last.resp))
       => (Truthy(error) /\ ErrorRowShown(last.res))
  /\ (MutationFailed(last) \/ CreateFailed(last)) => last.alerts >= 1

\* The rows of the orders table that show a record.
OrderRows == SelectSeq(Table("orders"), LAMBDA row : row.kind = "record")

\* The orders table shows the collection (no fetch is loading, none failed).
ShowsOrders == "orders" \in ViewResources(view) /\ ~loading /\ ~Truthy(error)

\* The indicator of a row is the one of the status the order has now.
IndicatorOfStatus(row, status) ==
  /\ status = "cancelled" => (row.tone = "red" /\ row.label = "Cancelled")
  /\ status = "delivered" => (row.tone = "green" /\ row.label = "Delivered")
  /\ status \notin {"cancelled", "delivered"}
       => (row.tone = "blue" /\ row.label = "Out for Delivery")

\* C22: while the orders table shows the fetched collection, it has one row
\* per retained order: a successful delete of an order takes one row away, a
\* successful status update takes none away, and every row's delivery
\* indicator is the one of the order's current status (cancelled: red,
\* Cancelled; delivered: green, Delivered).
C22_RowsFollowMutations ==
  ShowsOrders =>
    /\ Len(OrderRows) = Len(coll["orders"])
    /\ \A i \in DOMAIN OrderRows :
         /\ OrderRows[i].id = coll["orders"][i].id
         /\ IndicatorOfStatus(OrderRows[i], coll["orders"][i].status)
    /\ (DeleteSucceeded(last) /\ last.res = "orders"
          /\ last.id \in Ids(last.pre.coll["orders"]))
         => Len(OrderRows) = Len(last.pre.coll["orders"]) - 1
    /\ UpdateSucceeded(last)
         => /\ Len(OrderRows) = Len(last.pre.coll["orders"])
            /\ \A i \in DOMAIN OrderRows :
                 OrderRows[i].id = last.id => IndicatorOfStatus(OrderRows[i], last.status)

\* Two orders fetched, one updated to cancelled, the other deleted: one row,
\* red and Cancelled.
C22_Witness ==
  /\ ShowsOrders
  /\ DeleteSucceeded(last)
  /\ Len(last.pre.coll["orders"]) = 2
  /\ Len(OrderRows) = 1
  /\ OrderRows[1].tone = "red"
  /\ OrderRows[1].label = "Cancelled"

\* C23 (as stated): every create request carries a price that is a positive
\* number, a rating that is an integer in 0..5 and a popularity that is a
\* non-negative integer, whatever edits preceded the submit.
C23_CreateBodyInRange ==
  \A r \in BagToSet(inflight) :
    r.op = "create" =>
      /\ NumberOf(r.snap.price) # <<>>
      /\ NumberOf(r.snap.price)[1] > 0
      /\ r.snap.rating \in 0..5
      /\ r.snap.popularity >= 0

\* What the form data, the selected image and the preview are at first.
FormIsEmpty(fd) ==
  [fd EXCEPT !.reading = FALSE] = EmptyForm

\* C24: a submit with an empty name, category or price issues no request and
\* leaves loading, the form fields, the selected image and the preview as
\* they were; a create that resolves with an ok status and a true success
\* flag returns the form to its initial empty state, one that resolves
\* otherwise leaves the entered data as it was, and either sets loading to
\* false.
C24_SubmitOutcomes ==
  [][/\ (last' # last /\ last'.op = "createRejected")
          => /\ nreq' = nreq
             /\ inflight' = inflight
             /\ loading' = FALSE
             /\ form' = form
     /\ (last' # last /\ last'.op = "createResolved")
          => /\ loading' = FALSE
             /\ IF GatewaySuccess("items", "create", last'.resp)
                THEN FormIsEmpty(form')
                ELSE form' = form]_vars

\* A create of a filled form with an image has resolved with success and the
\* form is empty again.
C24_Witness ==
  /\ view = "AddItemPage"
  /\ last.op = "createResolved"
  /\ GatewaySuccess("items", "create", last.resp)
  /\ Len(server["items"]) = 1
  /\ FormIsEmpty(form)
  /\ ~loading

\* ---------------------------------------------------------------------------
\* The admin login

\* The authentication response is ok and the role it returns is admin.
AdminAuthenticated(resp) ==
  resp.kind = "json" /\ resp.ok /\ resp.data # <<>> /\ resp.data[1].role = "admin"

\* This step writes nothing to storage, does not navigate and leaves the
\* modal as open as it was.
NothingGranted ==
  /\ login'.adminToken = login.adminToken
  /\ login'.adminUser = login.adminUser
  /\ storageToken' = storageToken
  /\ login'.route = login.route
  /\ login'.isLoginOpen = login.isLoginOpen

\* C25: the login writes a session token to storage, closes the modal and
\* navigates to /orders only when the response is ok and the role is admin;
\* with empty fields (no request then), a non-ok response, another role or a
\* thrown error it writes nothing, does not navigate and sets a non-empty
\* error; loading is false once the submit has finished.
C25_LoginOnlyForAdmin ==
  [][/\ (last' # last /\ last'.op = "loginRejected")
          => /\ NothingGranted
             /\ login'.error # ""
             /\ nreq' = nreq
             /\ ~login'.loading
     /\ (last' # last /\ last'.op = "loginResolved")
          => /\ ~login'.loading
             /\ IF AdminAuthenticated(last'.resp)
                THEN /\ login'.adminToken = "tok"
                     /\ ~login'.isLoginOpen
                     /\ login'.route = "/orders"
                ELSE NothingGranted /\ login'.error # ""
     /\ login'.adminToken # login.adminToken
          => (last'.op = "loginResolved" /\ AdminAuthenticated(last'.resp))]_vars

\* An admin has logged in: token stored, modal closed, at /orders.
C25_Witness ==
  /\ last.op = "loginResolved"
  /\ AdminAuthenticated(last.resp)
  /\ login.adminToken = "tok"
  /\ login.route = "/orders"
  /\ ~login.isLoginOpen
  /\ ~login.loading

\* C26 (as stated): after a successful admin login the storage key that the
\* order controllers and the navbar read holds a token, so that an order
\* request made from then on carries a non-empty Bearer header, and the
\* navbar reports the user as logged in.
C26_LoginTokenReachesControllers ==
  (last.op = "loginResolved" /\ AdminAuthenticated(last.resp))
  => /\ storageToken # "none"
     /\ Authorization("orders", storageToken) = "Bearer tok"
     /\ login.isLoggedIn

\* ---------------------------------------------------------------------------
\* Responses that arrive late

\* C27 (as stated): a mutation response never makes a record present again
\* that the collection does not hold: an id enters a collection only by a
\* list fetch (here: for a mutation that resolves with success right after a
\* delete that resolved with success).
C27_MutationNeverReintroduces ==
  [][( /\ last' # last
       /\ DeleteSucceeded(last)
       /\ DeleteSucceeded(last') \/ UpdateSucceeded(last') )
     => \A res \in ViewResources(view) : Ids(coll'[res]) \subseteq Ids(coll[res])]_vars

\* A list fetch of the view is still awaiting its response.
ListPending == \E r \in BagToSet(inflight) : r.op = "list"

\* C28: no delete or status-update request is issued while loading is true
\* or the inline error is set, and hence no mutation response (here: one
\* that reports success and arrives while loading is true) arrives while a
\* list fetch of the same controller is pending.
C28_NoMutationDuringFetch ==
  [][last' # last
     => /\ last'.op \in {"deleteCall", "updateCall"} => ~loading /\ ~Truthy(error)
        /\ (loading /\ (DeleteSucceeded(last') \/ UpdateSucceeded(last')))
           => ~ListPending]_vars

\* ---------------------------------------------------------------------------
\* Termination of the list fetches

\* C29: when every issued request eventually resolves, loading eventually
\* becomes false after each list fetch, whatever its outcome, and loading is
\* true in every state in which a list fetch of the view is still pending.
C29_LoadingEndsAndCoversFetch ==
  /\ [](ListPending => loading)
  /\ ListPending ~> (~ListPending /\ ~loading)

\* ---------------------------------------------------------------------------
\* The combined panel's two lists

\* The table of res after the step shows one record row per record of data.
RowPerFetched(res, data) ==
  LET rows == TableOf(view, res, coll', loading', error')
  IN  /\ Len(rows) = Len(data)
      /\ \A i \in DOMAIN rows : rows[i].kind = "record" /\ rows[i].id = data[i].id

\* C30: in the combined panel the two lists are independent: when the
\* orders fetch succeeds the orders are replaced by the returned ones and
\* shown one per row, with no error set, whatever the contacts fetch gave,
\* and symmetrically for the contacts (here: for the mount-time fetch, a
\* list of at least one record, and the body shape the panel reads).
C30_ListsIndependent ==
  [][\A r \in BagToSet(inflight) : \A out \in Outcomes(r) :
       (nreq = 1 /\ fetchDataResolved(r, out[1], out[2]))
       => /\ ( /\ GatewaySuccess("orders", "list", out[1])
               /\ out[1].shape = "envelope"
               /\ Len(out[1].data) >= 1 )
             => /\ coll'["orders"] = out[1].data
                /\ error' = NoError
                /\ RowPerFetched("orders", out[1].data)
          /\ ( /\ GatewaySuccess("contacts", "list", out[2])
               /\ out[2].shape = "array"
               /\ Len(out[2].data) >= 1 )
             => /\ coll'["contacts"] = out[2].data
                /\ RowPerFetched("contacts", out[2].data)]_vars

====
